---------------------------- MODULE Spec2Model ----------------------------
(***************************************************************************)
(* PicoLogger: the cooperative logging scheduler (execute_logging,         *)
(* record_batch_data) and its HTTP control plane (http_server) of          *)
(* src/PicoLogger/main.py, with the capsense facade of                     *)
(* src/PicoLogger/capsense.py.                                             *)
(*                                                                         *)
(* uasyncio runs one task at a time and switches tasks only at an await.   *)
(* Every action below is the code one task runs between two suspension     *)
(* points.  Text is a sequence of one-character strings, so that parsing   *)
(* and formatting are computed and not assumed.                            *)
(***************************************************************************)
EXTENDS Integers, Sequences, FiniteSets, TLC

(***************************************************************************)
(* Bounds of the model.                                                    *)
(***************************************************************************)
\* task slots: sessions the router can spawn in one run of the model
MaxTasks == 2
\* largest reading of time.time(), in seconds
MaxTime == 1
\* longest duration (seconds) of the sessions of SpecEngine
MaxDuration == 4
\* most pairs of a form body of SpecForm
MaxPairs == 2
\* connections the clients of SpecLoop make
MaxConnections == 2
\* unexpected faults in the accept loop of SpecLoop
MaxLoopFaults == 1
\* the chunks in which the rest of a request body arrives
MaxChunks == 2

(***************************************************************************)
(* Program constants.                                                      *)
(***************************************************************************)
MAX_CONSECUTIVE_ERRORS == 5
num_sensors == 3
values_per_sensor == 3
\* "NO_SENSOR," * 11 + "NO_SENSOR": the repeat count of the sentinel rows
SENTINEL_REPEAT == 11
\* number of sub-sessions of a batch, range(1, 5)
BATCH_RUNS == 4
\* await asyncio.sleep(2) between sub-sessions
BATCH_GAP == 2
\* cl.recv(4096)
RECV_FIRST == 4096
\* cl.recv(min(remaining, 1024))
RECV_MORE == 1024

sensor_names == <<"CSD_360", "CSD_100", "CSD_20">>
value_names == <<"RawCount", "DiffCount", "Baseline">>

(***************************************************************************)
(* Text helpers: Python's str.split, int(), float() and {:02d} formatting. *)
(***************************************************************************)
Digits == <<"0", "1", "2", "3", "4", "5", "6", "7", "8", "9">>

IsDigit(c) == \E k \in 1..10 : Digits[k] = c

DigitVal(c) == (CHOOSE k \in 1..10 : Digits[k] = c) - 1

Min(a, b) == IF a < b THEN a ELSE b

Max(a, b) == IF a > b THEN a ELSE b

\* the first index of character c in s, 0 when absent (str.find)
RECURSIVE FindFrom(_, _, _)
FindFrom(s, c, k) ==
    IF k > Len(s) THEN 0
    ELSE IF s[k] = c THEN k
    ELSE FindFrom(s, c, k + 1)

Find(s, c) == FindFrom(s, c, 1)

\* s.split(c) for a one-character separator: always at least one part
RECURSIVE split(_, _)
split(s, c) ==
    LET k == Find(s, c)
    IN  IF k = 0 THEN <<s>>
        ELSE <<SubSeq(s, 1, k - 1)>> \o split(SubSeq(s, k + 1, Len(s)), c)

\* s.split(c, 1): at the first separator only
split1(s, c) ==
    LET k == Find(s, c)
    IN  IF k = 0 THEN <<s>>
        ELSE <<SubSeq(s, 1, k - 1), SubSeq(s, k + 1, Len(s))>>

\* value of a string of digits
RECURSIVE NatOf(_)
NatOf(s) ==
    IF Len(s) = 0 THEN 0
    ELSE 10 * NatOf(SubSeq(s, 1, Len(s) - 1)) + DigitVal(s[Len(s)])

AllDigits(s) == Len(s) > 0 /\ \A k \in 1..Len(s) : IsDigit(s[k])

HasSign(s) == Len(s) > 0 /\ s[1] \in {"-", "+"}

Unsigned(s) == IF HasSign(s) THEN Tail(s) ELSE s

\* int(s): [ok |-> FALSE] stands for ValueError
int(s) ==
    IF AllDigits(Unsigned(s))
    THEN [ok |-> TRUE,
          val |-> IF HasSign(s) /\ s[1] = "-" THEN 0 - NatOf(Unsigned(s))
                  ELSE NatOf(Unsigned(s))]
    ELSE [ok |-> FALSE, val |-> 0]

RECURSIVE Pow10(_)
Pow10(n) == IF n = 0 THEN 1 ELSE 10 * Pow10(n - 1)

\* float(s) for decimal notation, as the fraction num/den; [ok |-> FALSE]
\* stands for ValueError
float(s) ==
    LET u    == Unsigned(s)
        k    == Find(u, ".")
        ip   == IF k = 0 THEN u ELSE SubSeq(u, 1, k - 1)
        fp   == IF k = 0 THEN <<>> ELSE SubSeq(u, k + 1, Len(u))
        good == /\ Len(ip) + Len(fp) > 0
                /\ \A j \in 1..Len(ip) : IsDigit(ip[j])
                /\ \A j \in 1..Len(fp) : IsDigit(fp[j])
        mag  == NatOf(ip) * Pow10(Len(fp)) + NatOf(fp)
    IN  IF good
        THEN [ok |-> TRUE,
              num |-> IF HasSign(s) /\ s[1] = "-" THEN 0 - mag ELSE mag,
              den |-> Pow10(Len(fp))]
        ELSE [ok |-> FALSE, num |-> 0, den |-> 1]

\* str(n) of a natural number
RECURSIVE Dec(_)
Dec(n) == IF n < 10 THEN <<Digits[n + 1]>> ELSE Dec(n \div 10) \o <<Digits[(n % 10) + 1]>>

\* f"{n:02d}" and f"{n:04d}"
RECURSIVE ZeroPad(_, _)
ZeroPad(s, w) == IF Len(s) >= w THEN s ELSE ZeroPad(<<"0">> \o s, w)

Fmt(n, w) == IF n < 0 THEN <<"-">> \o ZeroPad(Dec(0 - n), w - 1) ELSE ZeroPad(Dec(n), w)

\* Python's int(x) of a fraction: truncation toward zero
Trunc(a, b) == IF a >= 0 THEN a \div b ELSE 0 - ((0 - a) \div b)


(***************************************************************************)
(* Sensor facade.  A CSV line is the sequence of its comma-separated       *)
(* fields (no field of this program holds a comma); a sensor value is      *)
(* abstracted to "0".                                                      *)
(***************************************************************************)
\* n copies of field x
Repeat(x, n) == [k \in 1..n |-> x]

\* the (sensor, value) pairs in the order of the two nested loops
CsvPairs ==
    LET ns == Min(num_sensors, Len(sensor_names))
        nv == Min(values_per_sensor, Len(value_names))
    IN  [k \in 1..(ns * nv) |-> <<((k - 1) \div nv) + 1, ((k - 1) % nv) + 1>>]

\* CapsenseReader.get_csv_header
get_csv_header ==
    [k \in 1..Len(CsvPairs) |->
        sensor_names[CsvPairs[k][1]] \o "_" \o value_names[CsvPairs[k][2]]]

\* CapsenseReader.get_csv_string: the values of one read, or None when
\* read_sensor_data raises (the except branch returns None)
get_csv_string(read_ok) ==
    IF read_ok THEN [k \in 1..Len(CsvPairs) |-> "0"] ELSE <<>>

\* get_capsense_data: reader is FALSE when capsense_reader is None.  An
\* empty result of get_csv_string is falsy.  The except branch ("ERROR")
\* needs get_csv_string to raise, which its own try/except rules out.
get_capsense_data(reader, read_ok) ==
    IF ~reader THEN Repeat("NO_SENSOR", SENTINEL_REPEAT + 1)
    ELSE LET capsense_csv == get_csv_string(read_ok)
         IN  IF Len(capsense_csv) > 0 THEN capsense_csv
             ELSE Repeat("EMPTY", SENTINEL_REPEAT + 1)

\* getBMEdata: temperature, humidity, pressure, or three "ERROR"
getBMEdata(bme_ok) ==
    IF bme_ok THEN <<"0", "0", "0">> ELSE <<"ERROR", "ERROR", "ERROR">>

\* the header line execute_logging writes
csv_header(reader) ==
    <<"Time", "BME280_temperature", "BME280_humidity", "BME280_pressure">>
    \o (IF reader THEN get_csv_header ELSE <<"capsense_unavailable">>)

(***************************************************************************)
(* Synthetic time stamp of tick i.  sample_rate is the fraction num/den,   *)
(* interval = den/num seconds; times are computed in milliseconds.         *)
(***************************************************************************)
current_total_ms(start_seconds, rate, i) ==
    start_seconds * 1000 + (i * rate.den * 1000) \div rate.num

\* the simplified day rollover: months of 30 days
RECURSIVE Rollover(_, _, _)
Rollover(y, mo, d) ==
    IF d > 30
    THEN IF mo + 1 > 12 THEN Rollover(y + 1, 1, d - 30)
         ELSE Rollover(y, mo + 1, d - 30)
    ELSE <<y, mo, d>>

current_date(year, month, day, day_offset) ==
    IF day_offset = 0 THEN <<year, month, day>>
    ELSE Rollover(year, month, day + day_offset)

\* datetime_str: "YYYY-MM-DD HH:MM:SS.mmm"
datetime_str(year, month, day, start_seconds, rate, i) ==
    LET total  == current_total_ms(start_seconds, rate, i)
        in_day == total % 86400000
        dt     == current_date(year, month, day, total \div 86400000)
    IN  Fmt(dt[1], 4) \o <<"-">> \o Fmt(dt[2], 2) \o <<"-">> \o Fmt(dt[3], 2)
        \o <<" ">>
        \o Fmt(in_day \div 3600000, 2) \o <<":">>
        \o Fmt((in_day % 3600000) \div 60000, 2) \o <<":">>
        \o Fmt((in_day % 60000) \div 1000, 2) \o <<".">>
        \o Fmt(in_day % 1000, 3)

(***************************************************************************)
(* State.                                                                  *)
(***************************************************************************)
VARIABLES
    logging_status,   \* the global record of main.py
    led,              \* the "LED" pin: TRUE when on
    capsense_reader,  \* FALSE when the sensor initialisation failed (None)
    files,            \* logs/<label>.csv: label |-> the lines of the file
    tasks,            \* the session tasks created by the router
    now,              \* the reading of time.time()
    response,         \* what the last step sent to its client, if anything
    last_status,      \* the last answer to a /status request
    faults,           \* TRUE when the environment may fail reads, writes, opens
    connection,       \* the socket calls of the last pass of the accept loop
    server,           \* the http_server task, and the clients it serves
    form,             \* a form body and what parse_form_data makes of it
    http_request      \* a connection and what read_http_request makes of it

vars ==
    <<logging_status, led, capsense_reader, files, tasks, now, response,
      last_status, faults, connection, server, form, http_request>>

TaskIds == 1..MaxTasks

NoText == <<>>

NoRate == [num |-> 0, den |-> 1]

\* a slot the router has not used yet
FreeTask ==
    [pc |-> "free", kind |-> "none",
     \* the arguments of the task
     duration |-> 0, sample_rate |-> NoRate, label |-> NoText,
     clock_time |-> NoText, start_date |-> NoText,
     \* record_batch_data: the loop index i (0 outside a batch)
     batch_i |-> 0,
     \* execute_logging: its arguments and locals
     x_label |-> NoText, x_clock |-> NoText,
     year |-> 0, month |-> 0, day |-> 0, start_seconds |-> 0,
     total_samples |-> 0, i |-> 0,
     successful_samples |-> 0, failed_samples |-> 0, consecutive_errors |-> 0,
     log_file |-> "none",
     \* the suspension the task is in: the milliseconds it asked for
     sleep_ms |-> 0,
     \* what the current execute_logging call has done so far
     exit |-> "none", outcomes |-> <<>>, tick_sleeps |-> 0, header_writes |-> 0,
     \* what the batch has done so far
     gap_sleeps |-> 0]

IdleStatus ==
    [active |-> FALSE, label |-> NoText, start_time |-> 0, duration |-> 0, type |-> ""]

(***************************************************************************)
(* A CSV file is the sequence of its lines.  A line is the sequence of its *)
(* fields; the first field of a data row is "@", which stands for          *)
(* datetime_str, whose text is the line's stamp.                           *)
(***************************************************************************)
HeaderLine(reader) == [stamp |-> NoText, fields |-> csv_header(reader)]

log_entry(stamp, bme, capsense_csv) ==
    [stamp |-> stamp, fields |-> <<"@">> \o bme \o capsense_csv]

Exists(fs, label) == label \in DOMAIN fs

\* open(path, "w") followed by f.write(header): the file holds this line only
FileCreate(fs, label, lines) == [l \in (DOMAIN fs) \cup {label} |-> IF l = label THEN lines ELSE fs[l]]

\* log_file.write(line) on a file opened with "a"
FileAppend(fs, label, line) ==
    [l \in (DOMAIN fs) \cup {label} |->
        IF l = label THEN (IF Exists(fs, label) THEN fs[label] ELSE <<>>) \o <<line>>
        ELSE fs[l]]

(***************************************************************************)
(* The code of a task between two awaits is computed on a machine record   *)
(* m: the globals it reads and writes (st is logging_status), the task's   *)
(* frame t, and the names of the environment's answers it has used.  inp   *)
(* holds the environment's answers for this stretch of code:               *)
(*   create  "ok" | "open_fail" (open(.., "w") raises)                     *)
(*           | "write_fail" (f.write(csv_header) raises)                   *)
(*   reopen  open(.., "a") succeeds                                        *)
(*   bme, cap  the BME280 read and the capsense read succeed               *)
(*   write   log_file.write and flush succeed                              *)
(***************************************************************************)
Inputs ==
    [create : {"ok", "open_fail", "write_fail"}, reopen : BOOLEAN,
     bme : BOOLEAN, cap : BOOLEAN, write : BOOLEAN]

\* the answers a stretch of code that opens no file can meet
TickInputs == {inp \in Inputs : inp.create = "ok" /\ inp.reopen}

Use(m, names) == [m EXCEPT !.used = @ \cup names]

\* the sample interval 1.0 / sample_rate, in milliseconds
interval_ms(rate) == (rate.den * 1000) \div rate.num

\* execute_logging, lines 472-483: after the loop, and the finally clause
after_loop(m, how) ==
    [m EXCEPT !.st.active = FALSE, !.st.label = NoText, !.led = FALSE,
              !.t.log_file = "closed", !.t.exit = how, !.t.pc = "returned",
              !.t.sleep_ms = 0]

\* an early return that skips the finally clause: the properties of the
\* indicator must tell it from the code
leave_indicator_on(m, how) ==
    [m EXCEPT !.st.active = FALSE,
              !.t.exit = how, !.t.pc = "returned", !.t.sleep_ms = 0]

\* execute_logging: an early return or the except clause, then finally
leave(m, how) ==
    [m EXCEPT !.st.active = FALSE, !.led = FALSE,
              !.t.exit = how, !.t.pc = "returned", !.t.sleep_ms = 0]

\* a tick that stamps its row with the time of the tick after it: the
\* properties of the tick order must tell it from the code
tick_next_stamp(m, inp) ==
    LET t     == m.t
        bme   == getBMEdata(inp.bme)
        caps  == get_capsense_data(m.reader, inp.cap)
        stamp == datetime_str(t.year, t.month, t.day, t.start_seconds, t.sample_rate, t.i + 1)
        line  == log_entry(stamp, bme, caps)
        m1    == Use(m, {"bme", "write"} \cup (IF m.reader THEN {"cap"} ELSE {}))
    IN  IF inp.write
        THEN [m1 EXCEPT !.files = FileAppend(m.files, t.x_label, line),
                        !.t.successful_samples = @ + 1,
                        !.t.consecutive_errors = 0,
                        !.t.outcomes = Append(@, inp.write),
                        !.t.tick_sleeps = @ + 1,
                        !.t.sleep_ms = interval_ms(t.sample_rate),
                        !.t.pc = "tick_sleep"]
        ELSE [m1 EXCEPT !.t.failed_samples = @ + 1,
                        !.t.consecutive_errors = @ + 1,
                        !.t.outcomes = Append(@, inp.write),
                        !.t.tick_sleeps = @ + 1,
                        !.t.sleep_ms = interval_ms(t.sample_rate),
                        !.t.pc = "tick_sleep"]

\* execute_logging, lines 415-470: the body of the loop for tick t.i, up to
\* its await asyncio.sleep(interval)
tick(m, inp) ==
    LET t     == m.t
        bme   == getBMEdata(inp.bme)
        caps  == get_capsense_data(m.reader, inp.cap)
        stamp == datetime_str(t.year, t.month, t.day, t.start_seconds, t.sample_rate, t.i)
        line  == log_entry(stamp, bme, caps)
        m1    == Use(m, {"bme", "write"} \cup (IF m.reader THEN {"cap"} ELSE {}))
    IN  IF inp.write
        THEN [m1 EXCEPT !.files = FileAppend(m.files, t.x_label, line),
                        !.t.successful_samples = @ + 1,
                        !.t.consecutive_errors = 0,
                        !.t.outcomes = Append(@, inp.write),
                        !.t.tick_sleeps = @ + 1,
                        !.t.sleep_ms = interval_ms(t.sample_rate),
                        !.t.pc = "tick_sleep"]
        ELSE [m1 EXCEPT !.t.failed_samples = @ + 1,
                        !.t.consecutive_errors = @ + 1,
                        !.t.outcomes = Append(@, inp.write),
                        !.t.tick_sleeps = @ + 1,
                        !.t.sleep_ms = interval_ms(t.sample_rate),
                        !.t.pc = "tick_sleep"]

\* a breaker that opens one failure late: the properties of the circuit
\* breaker must tell it from the code
breaker_open_late(consecutive_errors) == consecutive_errors > MAX_CONSECUTIVE_ERRORS

\* the test of the circuit breaker at the head of the loop body
breaker_open(consecutive_errors) == consecutive_errors >= MAX_CONSECUTIVE_ERRORS

\* execute_logging, lines 409-413: for i in range(total_samples) at index t.i
loop(m, inp) ==
    IF m.t.i >= m.t.total_samples THEN after_loop(m, "completed")
    ELSE IF breaker_open(m.t.consecutive_errors) THEN after_loop(m, "aborted")
    ELSE tick(m, inp)

\* duration * sample_rate rounded up: the properties of the sample count must
\* tell it from the code
total_samples_rounded_up(duration, rate) ==
    (duration * rate.num + rate.den - 1) \div rate.den

\* total_samples = int(duration * sample_rate).  The rates of the model
\* (0, 0.5, 1, 1.5) are binary fractions, on which float arithmetic is exact.
total_samples(duration, rate) == Trunc(duration * rate.num, rate.den)

\* execute_logging, lines 386-407: the header is written, the file reopened
open_log(m, inp) ==
    LET m1 == Use(m, {"create"})
    IN  IF inp.create = "open_fail" THEN leave(m1, "create_failed")
        ELSE IF inp.create = "write_fail"
        THEN leave([m1 EXCEPT !.files = FileCreate(m.files, m.t.x_label, <<>>)], "create_failed")
        ELSE LET m2 == Use([m1 EXCEPT !.files = FileCreate(m.files, m.t.x_label,
                                                        <<HeaderLine(m.reader)>>),
                                      !.t.header_writes = @ + 1], {"reopen"})
             IN  IF ~inp.reopen THEN leave(m2, "open_failed")
                 ELSE loop([m2 EXCEPT !.t.log_file = "open"], inp)

\* execute_logging(duration, sample_rate, x_label, x_clock, start_date), from
\* its first line to its first await or to its return
execute_logging(m, clock, inp) ==
    LET t    == m.t
        ymd  == split(t.start_date, "-")
        hm   == split(t.x_clock, ":")
        dok  == Len(ymd) = 3 /\ \A k \in 1..3 : int(ymd[k]).ok
        cok  == Len(hm) = 2 /\ \A k \in 1..2 : int(hm[k]).ok
        m1   == [m EXCEPT !.st = [active |-> TRUE, label |-> t.x_label,
                                  start_time |-> clock, duration |-> t.duration,
                                  type |-> "single"],
                          !.led = TRUE,
                          !.t.i = 0, !.t.successful_samples = 0,
                          !.t.failed_samples = 0, !.t.consecutive_errors = 0,
                          !.t.total_samples = 0, !.t.log_file = "none",
                          !.t.exit = "none", !.t.outcomes = <<>>,
                          !.t.tick_sleeps = 0, !.t.header_writes = 0]
    IN  IF ~dok \/ ~cok \/ t.sample_rate.num = 0 THEN leave(m1, "exception")
        ELSE open_log([m1 EXCEPT !.t.year = int(ymd[1]).val,
                                 !.t.month = int(ymd[2]).val,
                                 !.t.day = int(ymd[3]).val,
                                 !.t.start_seconds = int(hm[1]).val * 3600 + int(hm[2]).val * 60,
                                 !.t.total_samples = total_samples(t.duration, t.sample_rate)],
                      inp)

\* a batch that ends with the sub-session whose log file could not be
\* created: the properties of a failed creation must tell it from the code
after_sub_run_stopping(m) ==
    IF m.t.batch_i < BATCH_RUNS /\ m.t.exit \notin {"create_failed", "open_failed"}
    THEN [m EXCEPT !.t.pc = "gap_sleep", !.t.sleep_ms = BATCH_GAP * 1000,
                   !.t.gap_sleeps = @ + 1]
    ELSE [m EXCEPT !.st.active = FALSE, !.st.label = NoText, !.t.pc = "done"]

\* a batch that starts over after its fourth sub-session: the properties of
\* the end of the tasks must tell it from the code
after_sub_run_again(m) ==
    IF m.t.batch_i < BATCH_RUNS
    THEN [m EXCEPT !.t.pc = "gap_sleep", !.t.sleep_ms = BATCH_GAP * 1000,
                   !.t.gap_sleeps = @ + 1]
    ELSE [m EXCEPT !.t.pc = "gap_sleep", !.t.sleep_ms = BATCH_GAP * 1000,
                   !.t.batch_i = 0, !.t.gap_sleeps = 0]

\* record_batch_data, lines 283-289: after execute_logging has returned
after_sub_run(m) ==
    IF m.t.batch_i < BATCH_RUNS
    THEN [m EXCEPT !.t.pc = "gap_sleep", !.t.sleep_ms = BATCH_GAP * 1000,
                   !.t.gap_sleeps = @ + 1]
    ELSE [m EXCEPT !.st.active = FALSE, !.st.label = NoText, !.t.pc = "done"]

\* the caller of execute_logging takes over when it has returned
returned(m) ==
    IF m.t.pc # "returned" THEN m
    ELSE IF m.t.kind = "batch" THEN after_sub_run(m)
    ELSE [m EXCEPT !.t.pc = "done"]

\* batch_clock_time, lines 268-277: batch_start_seconds is computed and not
\* used; the clock time is parsed and formatted again
batch_clock_time(clock_time, duration, i) ==
    LET hm                  == split(clock_time, ":")
        batch_start_seconds == IF i > 1 THEN (i - 1) * (duration + 2) ELSE 0
        start_seconds       == int(hm[1]).val * 3600 + int(hm[2]).val * 60
        new_hours           == (start_seconds \div 3600) % 24
        new_minutes         == (start_seconds % 3600) \div 60
    IN  Fmt(new_hours, 2) \o <<":">> \o Fmt(new_minutes, 2)

\* sub-sessions that all log under the label of the batch: the properties of
\* the batch sequence must tell it from the code
sub_run_same_label(m, clock, inp) ==
    LET t   == m.t
        hm  == split(t.clock_time, ":")
        cok == Len(hm) = 2 /\ \A k \in 1..2 : int(hm[k]).ok
    IN  IF ~cok THEN [m EXCEPT !.t.pc = "raised", !.t.sleep_ms = 0]
        ELSE returned(execute_logging(
                 [m EXCEPT !.t.x_label = t.label,
                           !.t.x_clock = batch_clock_time(t.clock_time, t.duration, t.batch_i)],
                 clock, inp))

\* record_batch_data, lines 264-281: the loop body for sub-session t.batch_i
sub_run(m, clock, inp) ==
    LET t   == m.t
        hm  == split(t.clock_time, ":")
        cok == Len(hm) = 2 /\ \A k \in 1..2 : int(hm[k]).ok
    IN  IF ~cok THEN [m EXCEPT !.t.pc = "raised", !.t.sleep_ms = 0]
        ELSE returned(execute_logging(
                 [m EXCEPT !.t.x_label = t.label \o <<"_">> \o Dec(t.batch_i),
                           !.t.x_clock = batch_clock_time(t.clock_time, t.duration, t.batch_i)],
                 clock, inp))

\* record_batch_data, lines 255-262: the aggregate status, then the loop
record_batch_data(m, clock, inp) ==
    sub_run([m EXCEPT !.st = [active |-> TRUE, label |-> m.t.label,
                              start_time |-> clock,
                              duration |-> m.t.duration * 4 + 6,
                              type |-> "batch"],
                      !.t.batch_i = 1],
            clock, inp)

\* the first stretch of a task the router created
start_task(m, clock, inp) ==
    IF m.t.kind = "batch" THEN record_batch_data(m, clock, inp)
    ELSE returned(execute_logging([m EXCEPT !.t.x_label = m.t.label,
                                            !.t.x_clock = m.t.clock_time],
                                  clock, inp))

\* a suspended task goes on after its await
resume_task(m, clock, inp) ==
    IF m.t.pc = "tick_sleep"
    THEN returned(loop([m EXCEPT !.t.i = @ + 1, !.t.sleep_ms = 0], inp))
    ELSE sub_run([m EXCEPT !.t.batch_i = @ + 1, !.t.sleep_ms = 0], clock, inp)

(***************************************************************************)
(* The texts the HTTP control plane looks for.                             *)
(***************************************************************************)
\* 'GET / '
T_GET_ROOT_SP == <<"G", "E", "T", " ", "/", " ">>

\* 'GET / HTTP/1.1'
T_GET_ROOT_HTTP ==
    <<"G", "E", "T", " ", "/", " ", "H", "T", "T", "P", "/", "1", ".", "1">>

\* 'POST'
T_POST == <<"P", "O", "S", "T">>

\* '/start_logging'
T_START_LOGGING ==
    <<"/", "s", "t", "a", "r", "t", "_", "l", "o", "g", "g", "i", "n", "g">>

\* '/start_batch'
T_START_BATCH ==
    <<"/", "s", "t", "a", "r", "t", "_", "b", "a", "t", "c", "h">>

\* 'GET /status'
T_GET_STATUS == <<"G", "E", "T", " ", "/", "s", "t", "a", "t", "u", "s">>

\* 'Content-Length:'
T_CONTENT_LENGTH ==
    <<"C", "o", "n", "t", "e", "n", "t", "-", "L", "e", "n", "g", "t", "h",
      ":">>

\* 'content-length:'
T_content_length ==
    <<"c", "o", "n", "t", "e", "n", "t", "-", "l", "e", "n", "g", "t", "h",
      ":">>

\* '\r\n'
CRLF == <<"\r", "\n">>

\* '\r\n\r\n'
CRLFCRLF == <<"\r", "\n", "\r", "\n">>

\* 'duration'
K_duration == <<"d", "u", "r", "a", "t", "i", "o", "n">>

\* 'sample_rate'
K_sample_rate == <<"s", "a", "m", "p", "l", "e", "_", "r", "a", "t", "e">>

\* 'label'
K_label == <<"l", "a", "b", "e", "l">>

\* 'clock_time'
K_clock_time == <<"c", "l", "o", "c", "k", "_", "t", "i", "m", "e">>

\* 'date'
K_date == <<"d", "a", "t", "e">>

\* '60'
D_duration == <<"6", "0">>

\* '0.1'
D_sample_rate == <<"0", ".", "1">>

\* 'default'
D_label == <<"d", "e", "f", "a", "u", "l", "t">>

\* 'batch'
D_batch_label == <<"b", "a", "t", "c", "h">>

\* '12:00'
D_clock_time == <<"1", "2", ":", "0", "0">>

\* '2024-01-01'
D_date == <<"2", "0", "2", "4", "-", "0", "1", "-", "0", "1">>

\* '%20'
PCT_20 == <<"%", "2", "0">>

\* '%3A'
PCT_3A == <<"%", "3", "A">>

\* '%2D'
PCT_2D == <<"%", "2", "D">>

\* 'ABCDEFGHIJKLMNOPQRSTUVWXYZ'
UpperCase ==
    <<"A", "B", "C", "D", "E", "F", "G", "H", "I", "J", "K", "L", "M", "N",
      "O", "P", "Q", "R", "S", "T", "U", "V", "W", "X", "Y", "Z">>

\* 'abcdefghijklmnopqrstuvwxyz'
LowerCase ==
    <<"a", "b", "c", "d", "e", "f", "g", "h", "i", "j", "k", "l", "m", "n",
      "o", "p", "q", "r", "s", "t", "u", "v", "w", "x", "y", "z">>

(***************************************************************************)
(* More of Python's str: in, startswith, lower, strip, replace.            *)
(***************************************************************************)
StartsWithAt(s, sub, k) ==
    /\ k + Len(sub) - 1 <= Len(s)
    /\ \A j \in 1..Len(sub) : s[k + j - 1] = sub[j]

startswith(s, sub) == StartsWithAt(s, sub, 1)

\* the first index at which sub occurs in s, 0 when it does not
RECURSIVE FindText(_, _, _)
FindText(s, sub, k) ==
    IF k + Len(sub) - 1 > Len(s) THEN 0
    ELSE IF StartsWithAt(s, sub, k) THEN k
    ELSE FindText(s, sub, k + 1)

\* sub in s
Contains(s, sub) == FindText(s, sub, 1) # 0

\* s.split(sub) for a separator of several characters
RECURSIVE SplitText(_, _)
SplitText(s, sub) ==
    LET k == FindText(s, sub, 1)
    IN  IF k = 0 THEN <<s>>
        ELSE <<SubSeq(s, 1, k - 1)>> \o SplitText(SubSeq(s, k + Len(sub), Len(s)), sub)

\* s.replace(old, new): every occurrence, left to right
RECURSIVE replace(_, _, _)
replace(s, old, new) ==
    LET k == FindText(s, old, 1)
    IN  IF k = 0 THEN s
        ELSE SubSeq(s, 1, k - 1) \o new \o replace(SubSeq(s, k + Len(old), Len(s)), old, new)

LowerChar(c) ==
    IF \E k \in 1..26 : UpperCase[k] = c
    THEN LowerCase[CHOOSE k \in 1..26 : UpperCase[k] = c]
    ELSE c

lower(s) == [k \in 1..Len(s) |-> LowerChar(s[k])]

IsSpace(c) == c \in {" ", "\t", "\r", "\n"}

RECURSIVE strip(_)
strip(s) ==
    IF Len(s) > 0 /\ IsSpace(s[1]) THEN strip(Tail(s))
    ELSE IF Len(s) > 0 /\ IsSpace(s[Len(s)]) THEN strip(SubSeq(s, 1, Len(s) - 1))
    ELSE s

(***************************************************************************)
(* A connection is what its peer will deliver: the chunks, in order, and   *)
(* what a recv finds after the last one: "closed" (recv returns b"") or    *)
(* "timeout" (recv raises after the 5 s of settimeout).                    *)
(***************************************************************************)
\* cl.recv(n): [ok |-> FALSE] stands for the exception
recv(cl, n) ==
    IF cl.chunks = <<>>
    THEN [ok |-> cl.end = "closed", data |-> NoText, cl |-> cl]
    ELSE LET c == Head(cl.chunks)
         IN  IF Len(c) <= n
             THEN [ok |-> TRUE, data |-> c, cl |-> [cl EXCEPT !.chunks = Tail(@)]]
             ELSE [ok |-> TRUE, data |-> SubSeq(c, 1, n),
                   cl |-> [cl EXCEPT !.chunks = <<SubSeq(c, n + 1, Len(c))>> \o Tail(@)]]

\* read_http_request, lines 309-314: the value of the first header line that
\* starts with content-length:, 0 when there is none; [ok |-> FALSE] when
\* int() raises
content_length_of(lines) ==
    LET hits == {k \in 1..Len(lines) : startswith(lower(lines[k]), T_content_length)}
    IN  IF hits = {} THEN [ok |-> TRUE, val |-> 0]
        ELSE LET k == CHOOSE h \in hits : \A g \in hits : h <= g
             IN  int(strip(split(lines[k], ":")[2]))

\* read_http_request, lines 319-325: the loop that reads the rest of the body
RECURSIVE read_more(_, _, _)
read_more(body, content_length, cl) ==
    IF Len(body) >= content_length THEN body
    ELSE LET r == recv(cl, Min(content_length - Len(body), RECV_MORE))
         IN  IF ~r.ok \/ Len(r.data) = 0 THEN body
             ELSE read_more(body \o r.data, content_length, r.cl)

\* read_http_request(cl): headers and body
read_http_request(cl) ==
    LET first == recv(cl, RECV_FIRST)
    IN  IF ~first.ok THEN [headers |-> NoText, body |-> NoText]
        ELSE LET request == first.data
                 k       == FindText(request, CRLFCRLF, 1)
                 headers == IF k = 0 THEN request ELSE SubSeq(request, 1, k - 1)
                 body    == IF k = 0 THEN NoText ELSE SubSeq(request, k + 4, Len(request))
             IN  IF Contains(headers, T_POST) /\ Contains(headers, T_CONTENT_LENGTH)
                 THEN LET n == content_length_of(SplitText(headers, CRLF))
                      IN  [headers |-> headers,
                           body |-> IF n.ok THEN read_more(body, n.val, first.cl) ELSE body]
                 ELSE [headers |-> headers, body |-> body]

(***************************************************************************)
(* parse_form_data: the form as a function from its keys to their values.  *)
(***************************************************************************)
\* '%2F'
PCT_2F == <<"%", "2", "F">>

\* a decoding that knows %2F too: the properties of the form must tell it
\* from the code
url_decode_slash(value) ==
    replace(replace(replace(replace(value, PCT_20, <<" ">>), PCT_3A, <<":">>),
                    PCT_2D, <<"-">>), PCT_2F, <<"/">>)

url_decode(value) ==
    replace(replace(replace(value, PCT_20, <<" ">>), PCT_3A, <<":">>), PCT_2D, <<"-">>)

RECURSIVE form_of(_, _)
form_of(pairs, data) ==
    IF pairs = <<>> THEN data
    ELSE LET pair == Head(pairs)
             kv   == split1(pair, "=")
         IN  IF Find(pair, "=") = 0 THEN form_of(Tail(pairs), data)
             ELSE form_of(Tail(pairs),
                          [k \in (DOMAIN data) \cup {kv[1]} |->
                              IF k = kv[1] THEN url_decode(kv[2]) ELSE data[k]])

parse_form_data(body) ==
    IF Len(body) = 0 THEN <<>> ELSE form_of(split(body, "&"), <<>>)

\* data.get(key, default)
get(data, key, default) == IF key \in DOMAIN data THEN data[key] ELSE default

(***************************************************************************)
(* http_server: the routes, tried in the order of the if/elif chain.       *)
(***************************************************************************)
\* a chain whose first test is 'GET /': the properties of the routes must tell
\* it from the code
route_by_prefix(headers) ==
    IF Contains(headers, SubSeq(T_GET_ROOT_SP, 1, 5)) THEN "page"
    ELSE IF Contains(headers, T_POST) /\ Contains(headers, T_START_LOGGING) THEN "start_logging"
    ELSE IF Contains(headers, T_POST) /\ Contains(headers, T_START_BATCH) THEN "start_batch"
    ELSE "other"

route(headers) ==
    IF Contains(headers, T_GET_ROOT_SP) \/ Contains(headers, T_GET_ROOT_HTTP) THEN "page"
    ELSE IF Contains(headers, T_POST) /\ Contains(headers, T_START_LOGGING) THEN "start_logging"
    ELSE IF Contains(headers, T_POST) /\ Contains(headers, T_START_BATCH) THEN "start_batch"
    ELSE IF Contains(headers, T_GET_STATUS) THEN "status"
    ELSE "other"

\* a response: the status code and the body; for /status the parts of the line
\* "ACTIVE: <type> '<label>' - <elapsed>s elapsed, <remaining>s remaining"
Reply(code, body) ==
    [code |-> code, body |-> body, type |-> "", label |-> NoText,
     elapsed |-> 0, remaining |-> 0]

NoResponse == Reply(0, "none")

\* no connection was accepted in the last step
NoConnection == <<>>

\* the loop at its asyncio.sleep(0.01), clients that connect whenever the loop
\* accepts, and no fault in the loop itself
AnyClients ==
    [pc |-> "sleep", bounded |-> FALSE, clients |-> 0, to_come |-> 0, faults_left |-> 0]

NoForm == [body |-> NoText, parsed |-> FALSE, data |-> <<>>]

\* no connection is handed to read_http_request
NoRequest ==
    [cl |-> [chunks |-> <<>>, end |-> "closed"], declared |-> 0, read |-> FALSE,
     headers |-> NoText, body |-> NoText]

\* a status that answers from the start time and not from the active flag:
\* the properties of /status must tell it from the code
status_text_by_start_time(st, clock) ==
    IF st.active \/ st.start_time > 0
    THEN [code |-> 200, body |-> "ACTIVE", type |-> st.type, label |-> st.label,
          elapsed |-> clock - st.start_time,
          remaining |-> Max(0, st.duration - (clock - st.start_time))]
    ELSE Reply(200, "IDLE")

\* http_server, lines 547-553: the status text
status_text(st, clock) ==
    IF st.active
    THEN LET elapsed == clock - st.start_time
         IN  [code |-> 200, body |-> "ACTIVE", type |-> st.type, label |-> st.label,
              elapsed |-> elapsed, remaining |-> Max(0, st.duration - elapsed)]
    ELSE Reply(200, "IDLE")

\* http_server, lines 509-515 and 529-535: the arguments of the session, from
\* the form with the defaults; [ok |-> FALSE] when int() or float() raises
session_args(body, default_label) ==
    LET data        == parse_form_data(body)
        duration    == int(get(data, K_duration, D_duration))
        sample_rate == float(get(data, K_sample_rate, D_sample_rate))
    IN  [ok |-> duration.ok /\ sample_rate.ok,
         duration |-> duration.val,
         sample_rate |-> [num |-> sample_rate.num, den |-> sample_rate.den],
         label |-> get(data, K_label, default_label),
         clock_time |-> get(data, K_clock_time, D_clock_time),
         start_date |-> get(data, K_date, D_date)]

\* a task that has run when create_task returns: the properties of the start
\* requests must tell it from the code
new_task_running(kind, args) ==
    [FreeTask EXCEPT !.pc = "returned", !.kind = kind, !.duration = args.duration,
                     !.sample_rate = args.sample_rate, !.label = args.label,
                     !.clock_time = args.clock_time, !.start_date = args.start_date,
                     !.exit = "completed"]

\* asyncio.create_task: the task will run from its first line
new_task(kind, args) ==
    [FreeTask EXCEPT !.pc = "spawned", !.kind = kind, !.duration = args.duration,
                     !.sample_rate = args.sample_rate, !.label = args.label,
                     !.clock_time = args.clock_time, !.start_date = args.start_date]

(***************************************************************************)
(* The requests of the model.                                              *)
(***************************************************************************)
\* 'GET / HTTP/1.1'
L_GET_ROOT ==
    <<"G", "E", "T", " ", "/", " ", "H", "T", "T", "P", "/", "1", ".", "1">>

\* 'GET /status HTTP/1.1'
L_GET_STATUS ==
    <<"G", "E", "T", " ", "/", "s", "t", "a", "t", "u", "s", " ", "H", "T",
      "T", "P", "/", "1", ".", "1">>

\* 'GET /foo HTTP/1.1'
L_GET_FOO ==
    <<"G", "E", "T", " ", "/", "f", "o", "o", " ", "H", "T", "T", "P", "/",
      "1", ".", "1">>

\* 'POST /start_logging HTTP/1.1'
L_POST_LOGGING ==
    <<"P", "O", "S", "T", " ", "/", "s", "t", "a", "r", "t", "_", "l", "o",
      "g", "g", "i", "n", "g", " ", "H", "T", "T", "P", "/", "1", ".", "1">>

\* 'POST /start_batch HTTP/1.1'
L_POST_BATCH ==
    <<"P", "O", "S", "T", " ", "/", "s", "t", "a", "r", "t", "_", "b", "a",
      "t", "c", "h", " ", "H", "T", "T", "P", "/", "1", ".", "1">>

\* 'Content-Length: '
H_CONTENT_LENGTH ==
    <<"C", "o", "n", "t", "e", "n", "t", "-", "L", "e", "n", "g", "t", "h",
      ":", " ">>

\* '1'
V_1 == <<"1">>

\* '2'
V_2 == <<"2">>

\* '0.5'
V_0_5 == <<"0", ".", "5">>

\* '1.5'
V_1_5 == <<"1", ".", "5">>

\* '0'
V_0 == <<"0">>

\* 'a'
V_a == <<"a">>

\* 'x'
V_x == <<"x">>

\* '23%3A59'
V_23_59 == <<"2", "3", "%", "3", "A", "5", "9">>

\* '7'
V_7 == <<"7">>

\* '2024-01-30'
V_date == <<"2", "0", "2", "4", "-", "0", "1", "-", "3", "0">>

\* '23:59'
C_23_59 == <<"2", "3", ":", "5", "9">>

\* key=value
Pair(key, value) == key \o <<"=">> \o value

\* a form as the page's script sends it
Form(duration, sample_rate, clock_time) ==
    Pair(K_duration, duration) \o <<"&">> \o Pair(K_sample_rate, sample_rate)
    \o <<"&">> \o Pair(K_date, V_date) \o <<"&">> \o Pair(K_clock_time, clock_time)
    \o <<"&">> \o Pair(K_label, V_a)

\* a session of one tick, a sample rate of zero, a clock time that is not
\* HH:MM, a form with the duration only, and a duration that is no number
Bodies ==
    {Form(V_1, V_1, V_23_59), Form(V_1, V_0, V_23_59), Form(V_1, V_1, V_7),
     Pair(K_duration, V_1), Pair(K_duration, V_x)}

Post(line, body) == line \o CRLF \o H_CONTENT_LENGTH \o Dec(Len(body)) \o CRLFCRLF \o body

RequestTexts ==
    {L_GET_ROOT, L_GET_STATUS, L_GET_FOO}
    \cup {Post(L_POST_LOGGING, b) : b \in Bodies}
    \cup {Post(L_POST_BATCH, b) : b \in Bodies}

\* every request arrives whole, or its body in a second chunk, or not at all
Connections ==
    {[chunks |-> <<r>>, end |-> "closed"] : r \in RequestTexts}
    \cup {[chunks |-> <<SubSeq(r, 1, FindText(r, CRLFCRLF, 1) + 3),
                        SubSeq(r, FindText(r, CRLFCRLF, 1) + 4, Len(r))>>,
           end |-> "closed"] :
          r \in {q \in RequestTexts : FindText(q, CRLFCRLF, 1) # 0 /\ FindText(q, CRLFCRLF, 1) + 3 < Len(q)}}
    \cup {[chunks |-> <<>>, end |-> "timeout"]}

(***************************************************************************)
(* Actions.  The scheduler runs any task that is ready; an asyncio.sleep   *)
(* ends at some later pass of the scheduler, whatever time.time() reads.   *)
(***************************************************************************)
Machine(id) ==
    [st |-> logging_status, led |-> led, files |-> files, t |-> tasks[id],
     reader |-> capsense_reader, used |-> {}]

\* the answers of inp that are faults
Faults(inp) ==
    (IF inp.create # "ok" THEN {"create"} ELSE {})
    \cup (IF ~inp.reopen THEN {"reopen"} ELSE {})
    \cup (IF ~inp.bme THEN {"bme"} ELSE {})
    \cup (IF ~inp.cap THEN {"cap"} ELSE {})
    \cup (IF ~inp.write THEN {"write"} ELSE {})

\* the environment can give the answers of inp
Affordable(inp) == faults \/ Faults(inp) = {}

\* the task's stretch of code has run to its await or to its end: only the
\* faults the code has met are injected
Commit(id, m, inp) ==
    /\ Faults(inp) \subseteq m.used
    /\ logging_status' = m.st
    /\ led' = m.led
    /\ files' = m.files
    /\ tasks' = [tasks EXCEPT ![id] = m.t]
    /\ response' = NoResponse
    /\ connection' = NoConnection
    /\ UNCHANGED <<capsense_reader, now, last_status, faults, server, form, http_request>>

\* a task created for execute_logging runs to its first await or to its end
RunSingle ==
    \E id \in TaskIds, inp \in Inputs :
        /\ tasks[id].pc = "spawned"
        /\ tasks[id].kind = "single"
        /\ Affordable(inp)
        /\ \E m \in {start_task(Machine(id), now, inp)} : Commit(id, m, inp)

\* a task created for record_batch_data runs to its first await or to its end
RunBatch ==
    \E id \in TaskIds, inp \in Inputs :
        /\ tasks[id].pc = "spawned"
        /\ tasks[id].kind = "batch"
        /\ Affordable(inp)
        /\ \E m \in {start_task(Machine(id), now, inp)} : Commit(id, m, inp)

\* await asyncio.sleep(interval) returns: the next tick, or the end of the loop
\* (and then, in a batch, the code up to the next await)
WakeTick ==
    \E id \in TaskIds, inp \in TickInputs :
        /\ tasks[id].pc = "tick_sleep"
        /\ Affordable(inp)
        /\ \E m \in {resume_task(Machine(id), now, inp)} : Commit(id, m, inp)

\* await asyncio.sleep(2) returns: the next sub-session of the batch
WakeGap ==
    \E id \in TaskIds, inp \in Inputs :
        /\ tasks[id].pc = "gap_sleep"
        /\ Affordable(inp)
        /\ \E m \in {resume_task(Machine(id), now, inp)} : Commit(id, m, inp)

\* time.time() reads one second more
AdvanceClock ==
    /\ now < MaxTime
    /\ now' = now + 1
    /\ response' = NoResponse
    /\ connection' = NoConnection
    /\ UNCHANGED <<logging_status, led, capsense_reader, files, tasks,
                   last_status, faults, server, form, http_request>>

HasFree == \E id \in TaskIds : tasks[id].pc = "free"

FirstFree == CHOOSE id \in TaskIds : tasks[id].pc = "free" /\ \A j \in TaskIds : j < id => tasks[j].pc # "free"

\* http_server, lines 498-544: what the handler makes of a connection before
\* it touches the state: the request read, its route, and for a start route
\* the arguments of the session
Handled(cl) ==
    LET rq == read_http_request(cl)
        to == route(rq.headers)
    IN  [route |-> to,
         args |-> IF to = "start_logging" THEN session_args(rq.body, D_label)
                  ELSE IF to = "start_batch" THEN session_args(rq.body, D_batch_label)
                  ELSE [ok |-> FALSE],
         \* the first recv has raised: read_http_request returns "", ""
         read_failed |-> ~recv(cl, RECV_FIRST).ok]

\* the connections of the model, as the handler reads them
Requests == {Handled(cl) : cl \in Connections}

\* a pass of the loop that closes the connection only when a response was
\* sent: the properties of the connection must tell it from the code
socket_calls_leaky(rq) ==
    IF rq.route \in {"start_logging", "start_batch"} /\ ~rq.args.ok
    THEN <<"accept", "read">>
    ELSE <<"accept", IF rq.read_failed THEN "read_failed" ELSE "read", "send", "close">>

\* http_server, lines 494-569: the calls on the sockets in a pass of the loop
\* whose accept has returned a connection.  A start request whose int() or
\* float() raises goes to the except clause before any send; every branch ends
\* in the finally clause.
socket_calls(rq) ==
    <<"accept", IF rq.read_failed THEN "read_failed" ELSE "read">>
    \o (IF rq.route \in {"start_logging", "start_batch"} /\ ~rq.args.ok
        THEN <<>> ELSE <<"send">>)
    \o <<"close">>

\* the loop stops at a fault it did not expect: the properties of the loop
\* must tell it from the code
after_fault_stopped(srv) == [srv EXCEPT !.pc = "stopped", !.faults_left = @ - 1]

\* http_server, lines 575-577: the outer except clause logs the fault and
\* awaits asyncio.sleep(0.1)
after_fault(srv) == [srv EXCEPT !.pc = "backoff", !.faults_left = @ - 1]

\* http_server, lines 489-494: the loop is suspended in asyncio.sleep(0.01),
\* a client has connected, and s.accept() returns its connection; the pass is
\* over at the next asyncio.sleep(0.01)
Accept(rq) ==
    /\ server.pc = "sleep"
    /\ server.bounded => server.clients > 0
    /\ server' = IF server.bounded THEN [server EXCEPT !.clients = @ - 1] ELSE server
    /\ connection' = socket_calls(rq)

\* http_server, lines 506-544: a start request.  When int() or float() raises
\* the except clause of line 565 prints, and nothing is sent.
Start(rq, kind) ==
    /\ IF rq.args.ok
       THEN /\ HasFree
            /\ tasks' = [tasks EXCEPT ![FirstFree] = new_task(kind, rq.args)]
            /\ response' = Reply(200, "OK")
       ELSE /\ response' = NoResponse
            /\ UNCHANGED tasks
    /\ Accept(rq)
    /\ UNCHANGED <<logging_status, led, capsense_reader, files, now,
                   last_status, faults, form, http_request>>

\* GET /: the page
ServePage ==
    \E rq \in Requests :
        /\ rq.route = "page"
        /\ response' = Reply(200, "html")
        /\ Accept(rq)
        /\ UNCHANGED <<logging_status, led, capsense_reader, files, tasks, now,
                       last_status, faults, form, http_request>>

\* POST /start_logging
StartLogging == \E rq \in Requests : rq.route = "start_logging" /\ Start(rq, "single")

\* POST /start_batch
StartBatch == \E rq \in Requests : rq.route = "start_batch" /\ Start(rq, "batch")

\* GET /status
ServeStatus ==
    \E rq \in Requests :
        /\ rq.route = "status"
        /\ response' = status_text(logging_status, now)
        /\ last_status' = [seen |-> TRUE, active |-> response'.body = "ACTIVE",
                           elapsed |-> response'.elapsed]
        /\ Accept(rq)
        /\ UNCHANGED <<logging_status, led, capsense_reader, files, tasks, now,
                       faults, form, http_request>>

\* anything else, the empty request of a failed read included: 404
ServeNotFound ==
    \E rq \in Requests :
        /\ rq.route = "other"
        /\ response' = Reply(404, "Not Found")
        /\ Accept(rq)
        /\ UNCHANGED <<logging_status, led, capsense_reader, files, tasks, now,
                       last_status, faults, form, http_request>>

NoStatus == [seen |-> FALSE, active |-> FALSE, elapsed |-> 0]

NoTasks == [id \in TaskIds |-> FreeTask]

\* the state when http_server starts.  In Spec no read, write or open fails:
\* the failures are the subject of SpecEngine.
Init ==
    /\ logging_status = IdleStatus
    /\ led = FALSE
    /\ capsense_reader \in BOOLEAN
    /\ files = <<>>
    /\ tasks = NoTasks
    /\ now = 0
    /\ response = NoResponse
    /\ last_status = NoStatus
    /\ faults = FALSE
    /\ connection = NoConnection
    /\ server = AnyClients
    /\ form = NoForm
    /\ http_request = NoRequest

Next ==
    \/ ServePage
    \/ StartLogging
    \/ StartBatch
    \/ ServeStatus
    \/ ServeNotFound
    \/ RunSingle
    \/ RunBatch
    \/ WakeTick
    \/ WakeGap
    \/ AdvanceClock

Spec == Init /\ [][Next]_vars

(***************************************************************************)
(* The accept loop with its clients: MaxConnections connections arrive, at *)
(* any time; clients counts those that wait in the backlog of the          *)
(* listening socket.  The loop meets up to MaxLoopFaults faults that are   *)
(* no OSError.  uasyncio runs every ready task in turn, and the loop       *)
(* awaits in every pass: each task that can run does run (weak fairness).  *)
(***************************************************************************)
\* a client connects
Connect ==
    /\ server.bounded
    /\ server.to_come > 0
    /\ server' = [server EXCEPT !.to_come = @ - 1, !.clients = @ + 1]
    /\ UNCHANGED <<logging_status, led, capsense_reader, files, tasks, now,
                   response, last_status, faults, connection, form, http_request>>

\* http_server, lines 491-494 and 571-573: no connection waits, s.accept()
\* raises OSError, and the loop continues with its asyncio.sleep(0.01)
AcceptNothing ==
    /\ server.pc = "sleep"
    /\ server.bounded
    /\ server.clients = 0
    /\ response' = NoResponse
    /\ connection' = NoConnection
    /\ UNCHANGED <<logging_status, led, capsense_reader, files, tasks, now,
                   last_status, faults, server, form, http_request>>

\* http_server, lines 575-577: a fault that is no OSError
LoopFault ==
    /\ server.pc = "sleep"
    /\ server.faults_left > 0
    /\ server' = after_fault(server)
    /\ response' = NoResponse
    /\ connection' = NoConnection
    /\ UNCHANGED <<logging_status, led, capsense_reader, files, tasks, now,
                   last_status, faults, form, http_request>>

\* await asyncio.sleep(0.1) returns, and the loop goes on
LoopBackoff ==
    /\ server.pc = "backoff"
    /\ server' = [server EXCEPT !.pc = "sleep"]
    /\ UNCHANGED <<logging_status, led, capsense_reader, files, tasks, now,
                   response, last_status, faults, connection, form, http_request>>

\* a pass of the loop that handles a connection
Handle == ServePage \/ StartLogging \/ StartBatch \/ ServeStatus \/ ServeNotFound

\* a step of a session task
RunTask == RunSingle \/ RunBatch \/ WakeTick \/ WakeGap

InitLoop ==
    /\ logging_status = IdleStatus
    /\ led = FALSE
    /\ capsense_reader = TRUE
    /\ files = <<>>
    /\ tasks = NoTasks
    /\ now = 0
    /\ response = NoResponse
    /\ last_status = NoStatus
    /\ faults = FALSE
    /\ connection = NoConnection
    /\ server = [pc |-> "sleep", bounded |-> TRUE, clients |-> 0,
                 to_come |-> MaxConnections, faults_left |-> MaxLoopFaults]
    /\ form = NoForm
    /\ http_request = NoRequest

NextLoop ==
    \/ Connect
    \/ AcceptNothing
    \/ LoopFault
    \/ LoopBackoff
    \/ ServePage
    \/ StartLogging
    \/ StartBatch
    \/ ServeStatus
    \/ ServeNotFound
    \/ RunSingle
    \/ RunBatch
    \/ WakeTick
    \/ WakeGap

\* a session task can run: it was spawned, or the sleep it awaits is over
TaskReady ==
    \E id \in TaskIds : tasks[id].pc \in {"spawned", "tick_sleep", "gap_sleep"}

\* a task that could run has run: the steps of RunTask, and no other step of
\* the program (a start request fills a free slot)
TaskStep ==
    \E id \in TaskIds :
        /\ tasks[id].pc \in {"spawned", "tick_sleep", "gap_sleep"}
        /\ tasks'[id] # tasks[id]

\* RunTask is enabled exactly when TaskReady holds, and each of its steps
\* changes tasks: the last conjunct is WF_vars(RunTask), written with its
\* enabling condition
SpecLoop ==
    /\ InitLoop
    /\ [][NextLoop]_vars
    /\ WF_vars(Handle)
    /\ WF_vars(LoopBackoff)
    /\ ([]<>(~TaskReady) \/ []<><<RunTask>>_vars)

(***************************************************************************)
(* parse_form_data alone: a body of up to MaxPairs pairs, and one call.    *)
(***************************************************************************)
\* '30'
V_30 == <<"3", "0">>

\* 'test%20run'
V_test_20run == <<"t", "e", "s", "t", "%", "2", "0", "r", "u", "n">>

\* 'test run'
V_test_run == <<"t", "e", "s", "t", " ", "r", "u", "n">>

\* 'duration=30&label=test%20run'
B_example == Pair(K_duration, V_30) \o <<"&">> \o Pair(K_label, V_test_20run)

\* values: empty, plain, with each escape the code knows, with one it does
\* not know, and with an '=' of their own
FormValues == {NoText, V_1, V_test_20run, PCT_3A, PCT_2D, PCT_2F, Pair(V_a, V_1)}

\* pairs key=value, and pairs without '='
FormPairs == {Pair(k, v) : k \in {K_label, V_a}, v \in FormValues} \cup {V_a, NoText}

RECURSIVE JoinPairs(_)
JoinPairs(pairs) ==
    IF Len(pairs) = 0 THEN NoText
    ELSE IF Len(pairs) = 1 THEN pairs[1]
    ELSE pairs[1] \o <<"&">> \o JoinPairs(Tail(pairs))

FormBodies ==
    {JoinPairs(ps) : ps \in UNION {[1..n -> FormPairs] : n \in 0..MaxPairs}}
    \cup {B_example}

InitForm ==
    /\ logging_status = IdleStatus
    /\ led = FALSE
    /\ capsense_reader = TRUE
    /\ files = <<>>
    /\ tasks = NoTasks
    /\ now = 0
    /\ response = NoResponse
    /\ last_status = NoStatus
    /\ faults = FALSE
    /\ connection = NoConnection
    /\ server = AnyClients
    /\ \E b \in FormBodies : form = [NoForm EXCEPT !.body = b]
    /\ http_request = NoRequest

\* data = parse_form_data(body)
ParseForm ==
    /\ ~form.parsed
    /\ form' = [form EXCEPT !.parsed = TRUE, !.data = parse_form_data(form.body)]
    /\ UNCHANGED <<logging_status, led, capsense_reader, files, tasks, now,
                   response, last_status, faults, connection, server, http_request>>

NextForm == ParseForm

SpecForm == InitForm /\ [][NextForm]_vars

(***************************************************************************)
(* read_http_request alone: a POST whose Content-Length header is written  *)
(* in one of two letter cases and declares less than, as much as, or more  *)
(* than the body the peer sends; the body arrives with the headers in part *)
(* and in up to MaxChunks later chunks, and then the peer closes or stays  *)
(* silent.                                                                 *)
(***************************************************************************)
\* 'content-length: '
H_content_length == lower(H_CONTENT_LENGTH)

\* 'a=1&x=2'
B_sent == Pair(V_a, V_1) \o <<"&">> \o Pair(V_x, V_2)

\* the Content-Length values of the requests
Declared == {Len(B_sent) - 4, Len(B_sent), Len(B_sent) + 2}

\* the chunks of text s from position k on, at most n of them, none empty
RECURSIVE ChunksOf(_, _, _)
ChunksOf(s, k, n) ==
    IF k > Len(s) THEN {<<>>}
    ELSE IF n = 0 THEN {}
    ELSE UNION {{<<SubSeq(s, k, j)>> \o rest : rest \in ChunksOf(s, j + 1, n - 1)} :
                j \in k..Len(s)}

ReadConnections ==
    UNION {{[cl |-> [chunks |-> <<L_POST_LOGGING \o CRLF \o name \o Dec(n) \o CRLFCRLF
                                  \o SubSeq(B_sent, 1, k)>> \o rest,
                     end |-> end],
             declared |-> n, read |-> FALSE, headers |-> NoText, body |-> NoText] :
            name \in {H_CONTENT_LENGTH, H_content_length}, n \in Declared,
            rest \in ChunksOf(B_sent, k + 1, MaxChunks), end \in {"closed", "timeout"}} :
           k \in 0..Len(B_sent)}

InitRead ==
    /\ logging_status = IdleStatus
    /\ led = FALSE
    /\ capsense_reader = TRUE
    /\ files = <<>>
    /\ tasks = NoTasks
    /\ now = 0
    /\ response = NoResponse
    /\ last_status = NoStatus
    /\ faults = FALSE
    /\ connection = NoConnection
    /\ server = AnyClients
    /\ form = NoForm
    /\ http_request \in ReadConnections

\* headers, body = read_http_request(cl)
ReadRequest ==
    /\ ~http_request.read
    /\ \E r \in {read_http_request(http_request.cl)} :
           http_request' = [http_request EXCEPT !.read = TRUE, !.headers = r.headers,
                                                !.body = r.body]
    /\ UNCHANGED <<logging_status, led, capsense_reader, files, tasks, now,
                   response, last_status, faults, connection, server, form>>

NextRead == ReadRequest

SpecRead == InitRead /\ [][NextRead]_vars

(***************************************************************************)
(* The sample loop alone: one execute_logging task the router has created, *)
(* with a duration and a sample rate that give up to 6 ticks, and an       *)
(* environment that may fail every read, write and open.                   *)
(***************************************************************************)
EngineRates == {V_0_5, V_1, V_1_5}

EngineArgs ==
    {[ok |-> TRUE, duration |-> d,
      sample_rate |-> [num |-> float(r).num, den |-> float(r).den],
      label |-> V_a, clock_time |-> C_23_59, start_date |-> V_date] :
     d \in 1..MaxDuration, r \in EngineRates}

\* arguments on which execute_logging raises: a sample rate of zero, a clock
\* time that is not HH:MM
EngineBadArgs ==
    {[ok |-> TRUE, duration |-> 1,
      sample_rate |-> [num |-> float(V_0).num, den |-> float(V_0).den],
      label |-> V_a, clock_time |-> C_23_59, start_date |-> V_date],
     [ok |-> TRUE, duration |-> 1,
      sample_rate |-> [num |-> float(V_1).num, den |-> float(V_1).den],
      label |-> V_a, clock_time |-> V_7, start_date |-> V_date]}

InitEngine ==
    /\ logging_status = IdleStatus
    /\ led = FALSE
    /\ capsense_reader \in BOOLEAN
    /\ files = <<>>
    /\ \E a \in EngineArgs \cup EngineBadArgs :
           tasks = [NoTasks EXCEPT ![1] = new_task("single", a)]
    /\ now = 0
    /\ response = NoResponse
    /\ last_status = NoStatus
    /\ faults = TRUE
    /\ connection = NoConnection
    /\ server = AnyClients
    /\ form = NoForm
    /\ http_request = NoRequest

NextEngine ==
    \/ RunSingle
    \/ WakeTick

SpecEngine == InitEngine /\ [][NextEngine]_vars

(***************************************************************************)
(* A session of either kind under an environment that may fail every read, *)
(* write and open, with the accept loop answering /status between the      *)
(* steps of the task: one tick in a session, four sub-sessions in a batch. *)
(***************************************************************************)
BatchArgs ==
    [ok |-> TRUE, duration |-> 1,
     sample_rate |-> [num |-> float(V_1).num, den |-> float(V_1).den],
     label |-> V_a, clock_time |-> C_23_59, start_date |-> V_date]

InitBatch ==
    /\ logging_status = IdleStatus
    /\ led = FALSE
    /\ capsense_reader = TRUE
    /\ files = <<>>
    /\ \E kind \in {"single", "batch"} :
           tasks = [NoTasks EXCEPT ![1] = new_task(kind, BatchArgs)]
    /\ now = 0
    /\ response = NoResponse
    /\ last_status = NoStatus
    /\ faults = TRUE
    /\ connection = NoConnection
    /\ server = AnyClients
    /\ form = NoForm
    /\ http_request = NoRequest

NextBatch ==
    \/ RunSingle
    \/ RunBatch
    \/ WakeTick
    \/ WakeGap
    \/ ServeStatus

SpecBatch == InitBatch /\ [][NextBatch]_vars

(***************************************************************************)
(* The end of the tasks: one session or one batch with a duration and a    *)
(* sample rate that are negative, zero or positive, as int() and float()   *)
(* accept them, under an environment that may fail every read, write and   *)
(* open.  Every asyncio.sleep returns and uasyncio runs every ready task   *)
(* in turn: the task that can run does run (the weak fairness of RunTask,  *)
(* written with its enabling condition and with the steps it takes).       *)
(***************************************************************************)
\* '-1'
V_minus_1 == <<"-", "1">>

\* '-2'
V_minus_2 == <<"-", "2">>

\* the arguments of a session of up to two ticks, and of a batch of up to one
\* tick in a sub-session
LiveArgs(kind) ==
    {[ok |-> TRUE, duration |-> int(d).val,
      sample_rate |-> [num |-> float(r).num, den |-> float(r).den],
      label |-> V_a, clock_time |-> C_23_59, start_date |-> V_date] :
     d \in (IF kind = "single" THEN {V_minus_2, V_0, V_2} ELSE {V_minus_1, V_0, V_1}),
     r \in {V_minus_1, V_0, V_1}}

InitLive ==
    /\ logging_status = IdleStatus
    /\ led = FALSE
    /\ capsense_reader = TRUE
    /\ files = <<>>
    /\ \E kind \in {"single", "batch"} : \E a \in LiveArgs(kind) :
           tasks = [NoTasks EXCEPT ![1] = new_task(kind, a)]
    /\ now = 0
    /\ response = NoResponse
    /\ last_status = NoStatus
    /\ faults = TRUE
    /\ connection = NoConnection
    /\ server = AnyClients
    /\ form = NoForm
    /\ http_request = NoRequest

NextLive ==
    \/ RunSingle
    \/ RunBatch
    \/ WakeTick
    \/ WakeGap

SpecLive ==
    /\ InitLive
    /\ [][NextLive]_vars
    /\ ([]<>(~TaskReady) \/ []<><<TaskStep>>_vars)

(***************************************************************************)
(* Properties of the sample loop, checked under SpecEngine.                *)
(***************************************************************************)
\* the log file of the task's current execute_logging call
LogOf(t) == IF Exists(files, t.x_label) THEN files[t.x_label] ELSE <<>>

\* n is the floor of duration * rate
IsFloor(n, duration, rate) ==
    /\ n * rate.den <= duration * rate.num
    /\ duration * rate.num < (n + 1) * rate.den

\* the appends of ticks k .. k+4 have all failed
FailRun(o, k) ==
    /\ k >= 1
    /\ k + MAX_CONSECUTIVE_ERRORS - 1 <= Len(o)
    /\ \A j \in k..(k + MAX_CONSECUTIVE_ERRORS - 1) : ~o[j]

\* the number of failed appends at the end of o
RECURSIVE TrailingFailures(_)
TrailingFailures(o) ==
    IF Len(o) = 0 \/ o[Len(o)] THEN 0
    ELSE 1 + TrailingFailures(SubSeq(o, 1, Len(o) - 1))

\* the line holds the sentinel of a failed sensor read
SensorFailed(line) ==
    \E k \in 1..Len(line.fields) : line.fields[k] \in {"ERROR", "EMPTY"}

\* C1: for duration > 0 and sample_rate > 0, a run of execute_logging whose
\* log file was created computes total_samples = floor(duration * sample_rate)
\* and, whatever ticks succeed or fail, its file is exactly one header row
\* followed by at most total_samples data rows; when total_samples is 0 the
\* run writes the header only, runs no tick and no interval sleep, and has
\* ended with active false, label empty and the LED off.
C1_RowsBounded ==
    \A id \in TaskIds :
        LET t == tasks[id]
            f == LogOf(t)
        IN  /\ t.header_writes <= 1
            /\ (t.kind = "single" /\ t.header_writes = 1) =>
                  /\ t.duration > 0 /\ t.sample_rate.num > 0
                  /\ IsFloor(t.total_samples, t.duration, t.sample_rate)
                  /\ Len(f) >= 1
                  /\ f[1] = HeaderLine(capsense_reader)
                  /\ \A k \in 2..Len(f) : f[k].stamp # NoText
                  /\ Len(f) - 1 <= t.total_samples
                  /\ Len(f) - 1 = t.successful_samples
                  /\ (t.total_samples = 0 /\ t.log_file # "none") =>
                        /\ t.pc = "done"
                        /\ t.exit = "completed"
                        /\ Len(f) = 1
                        /\ t.outcomes = <<>>
                        /\ t.tick_sleeps = 0
                        /\ ~logging_status.active
                        /\ logging_status.label = NoText
                        /\ ~led

\* a run of at least 3 ticks has ended, with ticks that failed and ticks that
\* succeeded, and fewer rows than total_samples
C1_Witness ==
    \E id \in TaskIds :
        /\ tasks[id].pc = "done"
        /\ tasks[id].exit = "completed"
        /\ tasks[id].total_samples >= 3
        /\ tasks[id].failed_samples >= 1
        /\ tasks[id].successful_samples >= 1
        /\ Len(LogOf(tasks[id])) - 1 < tasks[id].total_samples

\* C2 (amended): in a session with total_samples > 5, when the row append
\* fails on 5 consecutive ticks and a tick remains after them, the session
\* aborts: no tick runs after the 5 failures, fewer than total_samples ticks
\* complete, and the session leaves through its normal exit (file closed,
\* active false, label empty, LED off).  The counter is the number of failed
\* appends since the last successful one, so fewer than 5 failures in a row
\* never abort.
C2_BreakerAborts ==
    \A id \in TaskIds :
        LET t == tasks[id]
            o == t.outcomes
        IN  (t.kind = "single" /\ t.total_samples > MAX_CONSECUTIVE_ERRORS) =>
              /\ t.pc = "tick_sleep" => t.consecutive_errors = TrailingFailures(o)
              /\ \A k \in 1..Len(o) :
                    FailRun(o, k) => Len(o) = k + MAX_CONSECUTIVE_ERRORS - 1
              /\ \A k \in 1..Len(o) :
                    (/\ FailRun(o, k)
                     /\ k + MAX_CONSECUTIVE_ERRORS - 1 < t.total_samples
                     /\ t.pc = "done") =>
                        /\ t.exit = "aborted"
                        /\ Len(o) < t.total_samples
                        /\ t.log_file = "closed"
                        /\ ~logging_status.active
                        /\ logging_status.label = NoText
                        /\ ~led
              /\ t.exit = "aborted" => \E k \in 1..Len(o) : FailRun(o, k)

\* a session of 6 ticks has aborted after a successful append and then 5
\* failed ones, or after 5 failed ones
C2_Witness ==
    \E id \in TaskIds :
        /\ tasks[id].pc = "done"
        /\ tasks[id].exit = "aborted"
        /\ tasks[id].total_samples > MAX_CONSECUTIVE_ERRORS
        /\ Len(tasks[id].outcomes) = MAX_CONSECUTIVE_ERRORS
        /\ Len(tasks[id].outcomes) < tasks[id].total_samples

\* C2 as stated: in a session with total_samples > 5, 5 consecutive failed
\* appends abort the session before total_samples ticks complete.
C2_AnyFiveFailuresAbort ==
    \A id \in TaskIds :
        LET t == tasks[id]
            o == t.outcomes
        IN  (/\ t.kind = "single"
             /\ t.total_samples > MAX_CONSECUTIVE_ERRORS
             /\ t.pc = "done"
             /\ \E k \in 1..Len(o) : FailRun(o, k)) =>
                /\ t.exit = "aborted"
                /\ Len(o) < t.total_samples

\* C3: a tick whose sensor read fails counts as a failed tick: every row that
\* holds the sentinel of a failed read is matched by a failed sample, and 5
\* such rows in a row end the session before all its ticks complete.
C3_SensorFailureCounts ==
    \A id \in TaskIds :
        LET t == tasks[id]
            f == LogOf(t)
        IN  (t.kind = "single" /\ t.header_writes = 1) =>
              /\ Cardinality({k \in 2..Len(f) : SensorFailed(f[k])}) <= t.failed_samples
              /\ (\E k \in 2..Len(f) :
                     /\ k + MAX_CONSECUTIVE_ERRORS - 1 <= Len(f)
                     /\ \A j \in k..(k + MAX_CONSECUTIVE_ERRORS - 1) : SensorFailed(f[j]))
                  => t.exit # "completed"

\* C4: every data row of every log file has as many fields as the header row
\* of the file has columns, whatever the state of the sensor facade.
C4_ColumnCount ==
    \A label \in DOMAIN files :
        LET f == files[label]
        IN  \A k \in 2..Len(f) : Len(f[k].fields) = Len(f[1].fields)

\* C10: when execute_logging has ended, on whatever path, active is false and
\* the label is empty.
C10_EveryExitClears ==
    \A id \in TaskIds :
        (tasks[id].kind = "single" /\ tasks[id].pc = "done") =>
            /\ ~logging_status.active
            /\ logging_status.label = NoText

(***************************************************************************)
(* Properties of the sessions the router starts, checked under Spec.       *)
(***************************************************************************)
\* the seconds of day of a clock time "HH:MM"
ClockSeconds(clock_time) ==
    LET hm == split(clock_time, ":")
    IN  int(hm[1]).val * 3600 + int(hm[2]).val * 60

\* C5: sub-session i of a batch starts at the requested clock time plus
\* (i - 1) * (duration + 2) seconds, wrapped at 24 hours.
C5_BatchClockOffset ==
    \A id \in TaskIds :
        LET t == tasks[id]
        IN  (t.kind = "batch" /\ t.pc = "tick_sleep") =>
              t.start_seconds =
                  (ClockSeconds(t.clock_time) + (t.batch_i - 1) * (t.duration + BATCH_GAP))
                  % 86400

\* C6: while a batch is the only session requested, from its start to the
\* end of its last sub-session, active is true at every suspension of the
\* batch, and no /status request is answered IDLE (stated for the batches
\* whose sample rate is positive, the sub-sessions of which run their ticks).
C6_BatchStaysActive ==
    \A id \in TaskIds :
        (/\ tasks[id].kind = "batch"
         /\ tasks[id].sample_rate.num > 0
         /\ tasks[id].pc \in {"tick_sleep", "gap_sleep"}
         /\ \A other \in TaskIds \ {id} : tasks[other].pc = "free") =>
            /\ logging_status.active
            /\ response.body # "IDLE"

\* C7: in every reachable state, when active is false the type is empty.
C7_InactiveHasNoType == ~logging_status.active => logging_status.type = ""

\* C8: a /status request handled while active is false is answered exactly
\* IDLE and leaves every field of logging_status as it was, so that repeated
\* requests while idle are all answered IDLE.
C8_IdleStatus ==
    [][(ServeStatus /\ ~logging_status.active) =>
           /\ response' = Reply(200, "IDLE")
           /\ logging_status' = logging_status]_vars

\* a session has ended, and a /status request was then answered IDLE
C8_Witness ==
    /\ response = Reply(200, "IDLE")
    /\ \E id \in TaskIds : tasks[id].pc = "done"

\* C9: of two /status requests answered ACTIVE with no IDLE answer between
\* them, the later reports at least the elapsed seconds of the earlier.
C9_ElapsedMonotone ==
    [][(/\ ServeStatus
        /\ last_status.seen
        /\ last_status.active
        /\ response'.body = "ACTIVE") =>
           response'.elapsed >= last_status.elapsed]_vars

\* C11: execute_logging turns the LED on at entry, and on every exit path
\* (completed, aborted, file creation or open failed, exception) the LED is
\* off when the session task has ended.
C11_IndicatorScoped ==
    \A id \in TaskIds :
        /\ (tasks[id].kind = "single" /\ tasks[id].pc = "tick_sleep") => led
        /\ (tasks[id].kind = "single" /\ tasks[id].pc = "done") =>
              /\ tasks[id].exit \in {"completed", "aborted", "create_failed",
                                     "open_failed", "exception"}
              /\ ~led

\* a session has ended in its except clause, the LED off
C11_Witness ==
    \E id \in TaskIds :
        /\ tasks[id].pc = "done"
        /\ tasks[id].exit = "exception"
        /\ ~led

(***************************************************************************)
(* Properties of the accept loop and the router, checked under Spec.       *)
(***************************************************************************)
\* the step is a pass of the accept loop that handles a connection
Handles == ServePage \/ StartLogging \/ StartBatch \/ ServeStatus \/ ServeNotFound

\* C12: a well-formed start request is answered 200 OK and its connection is
\* closed before the task it has created runs any step: no file is written,
\* logging_status is as it was, the task is at its first line; and no pass
\* of the router writes logging_status.
C12_FireAndForget ==
    [][/\ Handles => logging_status' = logging_status
       /\ ((StartLogging \/ StartBatch) /\ response' = Reply(200, "OK")) =>
             /\ files' = files
             /\ led' = led
             /\ connection' = <<"accept", "read", "send", "close">>
             /\ \E id \in TaskIds :
                   /\ tasks[id].pc = "free"
                   /\ tasks'[id].pc = "spawned"
                   /\ tasks'[id].kind \in {"single", "batch"}
                   /\ tasks'[id].header_writes = 0
                   /\ tasks'[id].outcomes = <<>>
                   /\ \A other \in TaskIds \ {id} : tasks'[other] = tasks[other]]_vars

\* a start request has been answered OK while an earlier session is running:
\* the new task has not run, the state is the running session's
C12_Witness ==
    /\ response = Reply(200, "OK")
    /\ connection = <<"accept", "read", "send", "close">>
    /\ \E id, other \in TaskIds :
          /\ tasks[id].pc = "spawned"
          /\ tasks[other].pc = "tick_sleep"
          /\ logging_status.active

\* C13: in every pass of the loop that accepts a connection, the connection
\* is closed exactly once, as the last call of the pass, on every branch and
\* when handling raises: no connection is open when the loop accepts again.
C13_ClosedOnce ==
    connection # NoConnection =>
        /\ connection[1] = "accept"
        /\ connection[Len(connection)] = "close"
        /\ Cardinality({k \in 1..Len(connection) : connection[k] = "close"}) = 1
        /\ Cardinality({k \in 1..Len(connection) : connection[k] = "accept"}) = 1

\* the handling of a start request has raised: nothing was sent, and the
\* connection is closed
C13_Witness == connection = <<"accept", "read", "close">>

\* GET /foo, as the handler reads it
GET_FOO == Handled([chunks |-> <<L_GET_FOO>>, end |-> "closed"])

\* C14: a request that matches none of the four routes, such as GET /foo, is
\* answered 404 Not Found, creates no task, leaves logging_status as it was,
\* and its connection is closed.
C14_NotFound ==
    [][/\ GET_FOO.route = "other"
       /\ ServeNotFound =>
             /\ response' = Reply(404, "Not Found")
             /\ tasks' = tasks
             /\ logging_status' = logging_status
             /\ files' = files
             /\ connection'[Len(connection')] = "close"]_vars

\* GET /foo was answered 404 while a session runs
C14_Witness ==
    /\ response = Reply(404, "Not Found")
    /\ connection = <<"accept", "read", "send", "close">>
    /\ \E id \in TaskIds : tasks[id].pc = "tick_sleep"

\* C15: every start request, its form fields missing or unparsable, is
\* answered 200 OK and creates a task, the defaults standing for such fields.
C15_FieldsDefaulted ==
    [][(StartLogging \/ StartBatch) =>
           /\ response' = Reply(200, "OK")
           /\ \E id \in TaskIds : tasks[id].pc = "free" /\ tasks'[id].pc = "spawned"]_vars

\* a start request with the duration only has created a task with the
\* defaults of the other fields
C15_Witness ==
    \E id \in TaskIds :
        /\ tasks[id].pc = "spawned"
        /\ tasks[id].duration = 1
        /\ tasks[id].sample_rate = [num |-> float(D_sample_rate).num,
                                    den |-> float(D_sample_rate).den]
        /\ tasks[id].label \in {D_label, D_batch_label}
        /\ tasks[id].clock_time = D_clock_time
        /\ tasks[id].start_date = D_date

\* C16: when the read of the request fails, nothing is sent on the
\* connection, no task is created, and the connection is closed.
C16_FailedReadServesNothing ==
    (connection # NoConnection /\ connection[2] = "read_failed") =>
        /\ \A k \in 1..Len(connection) : connection[k] # "send"
        /\ response = NoResponse
        /\ connection[Len(connection)] = "close"

(***************************************************************************)
(* Properties of parse_form_data, checked under SpecForm.                  *)
(***************************************************************************)
\* the text before the first '=' of a pair, and the text after it
KeyOf(pair) == SubSeq(pair, 1, Find(pair, "=") - 1)

ValueOf(pair) == SubSeq(pair, Find(pair, "=") + 1, Len(pair))

\* one pass over the value, left to right: %20, %3A and %2D give ' ', ':'
\* and '-', every other character stands for itself
RECURSIVE Unescape(_)
Unescape(v) ==
    IF Len(v) = 0 THEN v
    ELSE IF StartsWithAt(v, PCT_20, 1) THEN <<" ">> \o Unescape(SubSeq(v, 4, Len(v)))
    ELSE IF StartsWithAt(v, PCT_3A, 1) THEN <<":">> \o Unescape(SubSeq(v, 4, Len(v)))
    ELSE IF StartsWithAt(v, PCT_2D, 1) THEN <<"-">> \o Unescape(SubSeq(v, 4, Len(v)))
    ELSE <<v[1]>> \o Unescape(Tail(v))

\* C17: parse_form_data splits the body on '&' and each pair on its first
\* '=', drops the pairs without '=', replaces %20, %3A and %2D in the values
\* and nothing else, and lets the last pair of a key win; so
\* 'duration=30&label=test%20run' gives {duration: '30', label: 'test run'}
\* and %2F stays %2F.
C17_FormDecoding ==
    form.parsed =>
        LET pairs == IF Len(form.body) = 0 THEN <<>> ELSE split(form.body, "&")
            kept  == {k \in 1..Len(pairs) : Find(pairs[k], "=") # 0}
        IN  /\ DOMAIN form.data = {KeyOf(pairs[k]) : k \in kept}
            /\ \A k \in kept :
                  (\A later \in kept : later > k => KeyOf(pairs[later]) # KeyOf(pairs[k]))
                  => form.data[KeyOf(pairs[k])] = Unescape(ValueOf(pairs[k]))
            /\ form.body = B_example =>
                  form.data = (K_duration :> V_30) @@ (K_label :> V_test_run)
            /\ form.body = Pair(V_a, PCT_2F) => form.data = (V_a :> PCT_2F)

\* a body with the same key twice, the later value an escape the code does
\* not know, has been parsed
C17_Witness ==
    /\ form.parsed
    /\ form.body = Pair(V_a, V_test_20run) \o <<"&">> \o Pair(V_a, PCT_2F)
    /\ form.data = (V_a :> PCT_2F)

(***************************************************************************)
(* Properties of concurrent sessions, checked under Spec.                  *)
(***************************************************************************)
\* C18: whatever start requests are accepted, no two running sessions have
\* the same log file open, and no file is created anew under a session that
\* is still running on it.
C18_SingleWriter ==
    \A id, other \in TaskIds :
        (/\ id # other
         /\ tasks[id].log_file = "open"
         /\ tasks[other].log_file = "open"
         /\ tasks[id].pc = "tick_sleep"
         /\ tasks[other].pc = "tick_sleep") =>
            tasks[id].x_label # tasks[other].x_label

(***************************************************************************)
(* Properties of the accept loop, checked under SpecLoop.                  *)
(***************************************************************************)
\* C19: the accept loop never ends: after an accept that finds no
\* connection, after a request whose handling raises and after any other
\* fault it suspends and accepts again, so that every connection that waits
\* is accepted in the end, and every session task runs to its end.
C19_LoopLives ==
    /\ [](server.pc \in {"sleep", "backoff"})
    /\ []<>(server.pc = "sleep")
    /\ (server.clients > 0) ~> (server.clients = 0)
    /\ \A id \in TaskIds :
          (tasks[id].pc \in {"spawned", "tick_sleep", "gap_sleep"})
          ~> (tasks[id].pc \in {"done", "raised"})

\* the loop has met a fault, the handling of a request has raised, and every
\* connection was accepted
C19_Witness ==
    /\ server.bounded
    /\ server.faults_left = 0
    /\ server.to_come = 0
    /\ server.clients = 0
    /\ server.pc = "sleep"
    /\ connection = <<"accept", "read", "close">>

(***************************************************************************)
(* Properties of a failed file creation, checked under SpecBatch.          *)
(***************************************************************************)
\* the execute_logging call of task t has ended on a log file it could not
\* create, write its header to, or open again
CreationFailed(t) == t.exit \in {"create_failed", "open_failed"}

\* C20: a session whose log file cannot be created or opened again runs no
\* tick and appends no row, leaves the status inactive and the indicator
\* off, and ends without raising; in a batch the task then sleeps and runs
\* the next sub-session, up to the fourth, and the accept loop goes on
\* answering requests.
C20_CreationFailureLocal ==
    /\ [](\A id \in TaskIds :
            LET t == tasks[id]
            IN  CreationFailed(t) =>
                    /\ t.outcomes = <<>>
                    /\ t.tick_sleeps = 0
                    /\ \A k \in 1..Len(LogOf(t)) : LogOf(t)[k].stamp = NoText
                    /\ ~logging_status.active
                    /\ ~led
                    /\ t.kind = "single" => t.pc = "done"
                    /\ t.kind = "batch" =>
                           t.pc = (IF t.batch_i < BATCH_RUNS THEN "gap_sleep" ELSE "done"))
    /\ [][\A id \in TaskIds :
            (tasks[id].pc = "gap_sleep" /\ tasks'[id] # tasks[id]) =>
                /\ tasks'[id].batch_i = tasks[id].batch_i + 1
                /\ tasks'[id].x_label = tasks[id].label \o <<"_">> \o Dec(tasks'[id].batch_i)
                /\ tasks'[id].pc \in {"tick_sleep", "gap_sleep", "done"}]_vars
    /\ [][((\E id \in TaskIds : CreationFailed(tasks[id])) /\ Handles) =>
            /\ response'.code = 200
            /\ connection' = <<"accept", "read", "send", "close">>]_vars

\* the first sub-session of a batch could not create its file, the three
\* others have logged their row, and the status was answered after the end
C20_Witness ==
    /\ tasks[1].kind = "batch"
    /\ tasks[1].pc = "done"
    /\ tasks[1].batch_i = BATCH_RUNS
    /\ ~Exists(files, V_a \o <<"_">> \o Dec(1))
    /\ \A i \in 2..BATCH_RUNS :
          /\ Exists(files, V_a \o <<"_">> \o Dec(i))
          /\ Len(files[V_a \o <<"_">> \o Dec(i)]) = 2
    /\ response.code = 200

(***************************************************************************)
(* Properties of a batch and of the status it shows, checked under Spec.   *)
(***************************************************************************)
\* C21: the aggregate record that record_batch_data writes on entry (type
\* batch, the label of the batch, a duration of 4 * duration + 6) is still
\* there when the batch first suspends, and a /status request handled at
\* that suspension reports the batch and the time that remains of it.
C21_AggregateObservable ==
    \A id \in TaskIds :
        LET t == tasks[id]
        IN  (/\ t.kind = "batch"
             /\ t.pc = "tick_sleep"
             /\ t.batch_i = 1
             /\ t.i = 0
             /\ \A other \in TaskIds \ {id} : tasks[other].pc = "free") =>
                /\ logging_status.type = "batch"
                /\ logging_status.label = t.label
                /\ logging_status.duration = BATCH_RUNS * t.duration + 6
                /\ response.body = "ACTIVE" =>
                       /\ response.type = "batch"
                       /\ response.label = t.label

(***************************************************************************)
(* Properties of the batch sequence, checked under SpecBatch: the request  *)
(* of the batch is a LoggingRequest, whose clock time reads HH:MM.         *)
(***************************************************************************)
\* the label of sub-session i of the batch task t
BatchLabel(t, i) == t.label \o <<"_">> \o Dec(i)

\* C22: a batch runs sub-sessions 1, 2, 3, 4 in this order, sub-session i
\* under the label <label>_i with the duration and the sample rate of the
\* request; a sub-session starts only when the one before it has ended and
\* the 2-second sleep after it is over; the batch sleeps 2 seconds after
\* each of the sub-sessions 1, 2, 3, and after the fourth it ends.
C22_BatchSequence ==
    /\ [](\A id \in TaskIds :
            LET t == tasks[id]
            IN  (t.kind = "batch" /\ t.pc \in {"tick_sleep", "gap_sleep", "done"}) =>
                    /\ t.batch_i \in 1..BATCH_RUNS
                    /\ t.x_label = BatchLabel(t, t.batch_i)
                    /\ t.total_samples = total_samples(t.duration, t.sample_rate)
                    /\ DOMAIN files \subseteq {BatchLabel(t, i) : i \in 1..t.batch_i}
                    /\ t.pc = "tick_sleep" =>
                           /\ t.gap_sleeps = t.batch_i - 1
                           /\ logging_status.label = BatchLabel(t, t.batch_i)
                           /\ logging_status.duration = t.duration
                           /\ t.sleep_ms = interval_ms(t.sample_rate)
                    /\ t.pc = "gap_sleep" =>
                           /\ t.batch_i < BATCH_RUNS
                           /\ t.gap_sleeps = t.batch_i
                           /\ t.exit # "none"
                           /\ t.sleep_ms = BATCH_GAP * 1000
                    /\ t.pc = "done" =>
                           /\ t.batch_i = BATCH_RUNS
                           /\ t.gap_sleeps = BATCH_RUNS - 1
                           /\ t.exit # "none")
    /\ [][\A id \in TaskIds :
            (tasks[id].kind = "batch" /\ tasks'[id].batch_i # tasks[id].batch_i) =>
                \/ tasks[id].pc = "spawned" /\ tasks'[id].batch_i = 1
                \/ /\ tasks[id].pc = "gap_sleep"
                   /\ tasks'[id].batch_i = tasks[id].batch_i + 1]_vars

\* a batch has ended: its four files hold the header and the row of the one
\* tick of their sub-session, and three sleeps lay between the sub-sessions
C22_Witness ==
    /\ tasks[1].kind = "batch"
    /\ tasks[1].pc = "done"
    /\ tasks[1].gap_sleeps = BATCH_RUNS - 1
    /\ DOMAIN files = {BatchLabel(tasks[1], i) : i \in 1..BATCH_RUNS}
    /\ \A i \in 1..BATCH_RUNS : Len(files[BatchLabel(tasks[1], i)]) = 2

(***************************************************************************)
(* Properties of read_http_request, checked under SpecRead.                *)
(***************************************************************************)
\* the text of all the chunks of a connection
RECURSIVE Joined(_)
Joined(chunks) == IF chunks = <<>> THEN NoText ELSE Head(chunks) \o Joined(Tail(chunks))

\* what the peer sends after the blank line, in the first chunk and in all
BodyIn(text) == SubSeq(text, FindText(text, CRLFCRLF, 1) + 4, Len(text))

\* C23: for a POST with a Content-Length header, in whatever letter case,
\* read_http_request returns the body that came with the headers when it has
\* the declared length or more, and otherwise the body the peer sent, up to
\* the declared length and not beyond; a body the peer left short is
\* returned as it is, with the headers.
C23_BodyCompleted ==
    http_request.read =>
        LET first == BodyIn(Head(http_request.cl.chunks))
            sent  == BodyIn(Joined(http_request.cl.chunks))
            n     == http_request.declared
        IN  /\ http_request.headers # NoText
            /\ http_request.body =
                   IF Len(first) >= n THEN first ELSE SubSeq(sent, 1, Min(n, Len(sent)))

\* a request with its header in lower case was read: the body stops at the
\* part that came with the headers, while the peer had sent all of it
C23_Witness ==
    /\ http_request.read
    /\ Contains(http_request.headers, H_content_length)
    /\ http_request.declared = Len(B_sent)
    /\ BodyIn(Joined(http_request.cl.chunks)) = B_sent
    /\ Len(http_request.body) < Len(B_sent)

(***************************************************************************)
(* Properties of the order of the ticks, checked under SpecEngine.         *)
(***************************************************************************)
\* the indices of the ticks among the first n whose row was written
Written(o, n) == {j \in 0..(n - 1) : o[j + 1]}

\* the index of the tick that wrote data row r of the file
TickOfRow(o, r) ==
    CHOOSE j \in Written(o, Len(o)) : Cardinality(Written(o, j)) = r - 1

\* C24: in one run of execute_logging the rows of the file follow the order
\* of the ticks, a tick appends its row (or fails) before the next tick
\* starts, the row of tick i carries the base time plus i intervals, every
\* executed tick, written or failed, the last one too, is followed by one
\* sleep of the interval, and the run ends only after the sleep of its last
\* tick.
C24_TickOrder ==
    /\ [](\A id \in TaskIds :
            LET t == tasks[id]
                o == t.outcomes
                f == LogOf(t)
            IN  (t.kind = "single" /\ t.header_writes = 1 /\ t.exit \notin {"open_failed"}
                 /\ t.pc \in {"tick_sleep", "done"}) =>
                    /\ t.tick_sleeps = Len(o)
                    /\ Len(f) = 1 + Cardinality(Written(o, Len(o)))
                    /\ \A r \in 1..(Len(f) - 1) :
                          f[r + 1].stamp =
                              datetime_str(t.year, t.month, t.day, t.start_seconds,
                                           t.sample_rate, TickOfRow(o, r))
                    /\ t.pc = "tick_sleep" =>
                          /\ t.i = Len(o) - 1
                          /\ t.sleep_ms = interval_ms(t.sample_rate))
    /\ [][\A id \in TaskIds :
            LET t == tasks[id]
                u == tasks'[id]
            IN  /\ u.outcomes # t.outcomes =>
                      /\ t.pc \in {"spawned", "tick_sleep"}
                      /\ u.pc = "tick_sleep"
                      /\ Len(u.outcomes) = Len(t.outcomes) + 1
                      /\ SubSeq(u.outcomes, 1, Len(t.outcomes)) = t.outcomes
                      /\ u.tick_sleeps = t.tick_sleeps + 1
                /\ (t.pc = "tick_sleep" /\ u.pc = "tick_sleep" /\ u # t) =>
                      /\ u.i = t.i + 1
                      /\ Len(u.outcomes) = Len(t.outcomes) + 1
                /\ (t.pc # "done" /\ u.pc = "done" /\ u.exit \in {"completed", "aborted"}
                    /\ Len(u.outcomes) > 0) =>
                      /\ t.pc = "tick_sleep"
                      /\ u.outcomes = t.outcomes
                      /\ u.tick_sleeps = Len(u.outcomes)]_vars

\* a run of three ticks has ended, the second of which failed to write: two
\* rows, and three sleeps
C24_Witness ==
    /\ tasks[1].pc = "done"
    /\ tasks[1].exit = "completed"
    /\ tasks[1].outcomes = <<TRUE, FALSE, TRUE>>
    /\ tasks[1].tick_sleeps = 3
    /\ Len(LogOf(tasks[1])) = 3

(***************************************************************************)
(* Properties of the status and the tasks behind it, checked under Spec.   *)
(***************************************************************************)
\* the task has started and has not ended: it awaits a sleep
InProgress(t) == t.pc \in {"tick_sleep", "gap_sleep"}

\* C25: whenever active is true, a session or a batch is in progress: once
\* every task the router created has ended, by its return or by an
\* exception, active is false and a /status request is answered IDLE.
C25_NoStaleActive ==
    /\ logging_status.active => \E id \in TaskIds : InProgress(tasks[id])
    /\ response.body = "ACTIVE" => \E id \in TaskIds : InProgress(tasks[id])

\* C26: a /status request handled while a session is between its entry and
\* its exit is answered ACTIVE and not IDLE, also when sessions overlap and
\* one of them has ended before the others.
C26_StatusReflectsSessions ==
    (\E id \in TaskIds : tasks[id].pc = "tick_sleep") => response.body # "IDLE"

(***************************************************************************)
(* Properties of the end of the tasks, checked under SpecLive.             *)
(***************************************************************************)
\* C27: when every sleep returns and the scheduler is fair, every task
\* created for execute_logging ends, whatever the sign of its duration and
\* of its sample rate and whatever reads and writes fail, and every task
\* created for record_batch_data with a clock time that parses ends after
\* its fourth sub-session.
C27_TasksEnd ==
    \A id \in TaskIds :
        (tasks[id].pc \in {"spawned", "tick_sleep", "gap_sleep"}) ~>
            /\ tasks[id].pc = "done"
            /\ tasks[id].kind = "batch" => tasks[id].batch_i = BATCH_RUNS

\* a session with a negative duration and a negative sample rate has run two
\* ticks, and has ended
C27_Witness ==
    /\ tasks[1].kind = "single"
    /\ tasks[1].pc = "done"
    /\ tasks[1].duration < 0
    /\ tasks[1].sample_rate.num < 0
    /\ Len(tasks[1].outcomes) = 2

=============================================================================
